---- MODULE Spec2Model ----
(***************************************************************************)
(* Interrupt management of the bl602-hal: the interrupt source model      *)
(* (Interrupt::to_irq / Interrupt::from), the trap dispatcher             *)
(* (start_trap_rust_hal), the CLIC enable/pending byte banks              *)
(* (enable_interrupt / disable_interrupt / clear_interrupt) and the       *)
(* machine timer (Clic).                                                  *)
(***************************************************************************)
EXTENDS Integers, Sequences, FiniteSets, TLC

(***************************************************************************)
(* Bounds of the model.                                                    *)
(***************************************************************************)
\* irq numbers handed to Interrupt::from are drawn from 0..MaxIrq
MaxIrq == 300
\* mcause codes of a trap are drawn from 0..MaxCode
MaxCode == 320
\* bytes of each CLIC bank that the model keeps (indices 0..BankLen-1)
BankLen == 100
\* number of enable/disable/clear calls in one run
MaxOps == 3
\* number of times the tick counter advances in one run
MaxAdvances == 1
\* calls of enable_, disable_ and clear_interrupt mixed in one run
MaxMixedOps == 2

(***************************************************************************)
(* interrupts.rs: constants                                                *)
(***************************************************************************)
IRQ_NUM_BASE == 16
CLIC_HART0_ADDR == 41943040
CLIC_INTIE == 1024
CLIC_INTIP == 0

MSIP_IRQ == 3
MTIP_IRQ == 7
MEIP_IRQ == 11

DMA0_IRQ == IRQ_NUM_BASE + 15
SPI0_IRQ == IRQ_NUM_BASE + 27
UART0_IRQ == IRQ_NUM_BASE + 29
UART1_IRQ == IRQ_NUM_BASE + 30
I2C0_IRQ == IRQ_NUM_BASE + 32
PWM_IRQ == IRQ_NUM_BASE + 34
TIMER_CH0_IRQ == IRQ_NUM_BASE + 36
TIMER_CH1_IRQ == IRQ_NUM_BASE + 37
WATCHDOG_IRQ == IRQ_NUM_BASE + 38
GPIO_IRQ == IRQ_NUM_BASE + 44

(***************************************************************************)
(* clic.rs: constants                                                      *)
(***************************************************************************)
CLIC_CTRL_ADDR == 33554432
CLIC_MTIMECMP == 16384
CLIC_MTIME == 49144

(***************************************************************************)
(* interrupts.rs: enum Interrupt                                           *)
(***************************************************************************)
Interrupt ==
    {"Unknown", "MachineSoft", "MachineTimer", "MachineExternal", "Gpio",
     "TimerCh0", "TimerCh1", "Watchdog", "Dma", "Spi", "Uart0", "Uart1",
     "I2c", "Pwm"}

\* the variants other than the sentinel
Known == Interrupt \ {"Unknown"}

\* the variants with an irq number at or above IRQ_NUM_BASE
Peripheral == Known \ {"MachineSoft", "MachineTimer", "MachineExternal"}

\* what to_irq yields where the code panics instead of returning
PANIC == 0 - 1

\* a variant of to_irq in which two arms share a constant
to_irq_shared(s) ==
    CASE s = "Unknown" -> PANIC
      [] s = "MachineSoft" -> MSIP_IRQ
      [] s = "MachineTimer" -> MTIP_IRQ
      [] s = "MachineExternal" -> MEIP_IRQ
      [] s = "Gpio" -> GPIO_IRQ
      [] s = "TimerCh0" -> TIMER_CH0_IRQ
      [] s = "TimerCh1" -> TIMER_CH0_IRQ
      [] s = "Watchdog" -> WATCHDOG_IRQ
      [] s = "Dma" -> DMA0_IRQ
      [] s = "Spi" -> SPI0_IRQ
      [] s = "Uart0" -> UART0_IRQ
      [] s = "Uart1" -> UART1_IRQ
      [] s = "I2c" -> I2C0_IRQ
      [] s = "Pwm" -> PWM_IRQ

\* a variant of to_irq whose Unknown arm returns 0
to_irq_unknown_zero(s) == IF s = "Unknown" THEN 0 ELSE to_irq_shared(s)

\* Interrupt::to_irq; PANIC stands for the panic! of the Unknown arm
to_irq(s) ==
    CASE s = "Unknown" -> PANIC
      [] s = "MachineSoft" -> MSIP_IRQ
      [] s = "MachineTimer" -> MTIP_IRQ
      [] s = "MachineExternal" -> MEIP_IRQ
      [] s = "Gpio" -> GPIO_IRQ
      [] s = "TimerCh0" -> TIMER_CH0_IRQ
      [] s = "TimerCh1" -> TIMER_CH1_IRQ
      [] s = "Watchdog" -> WATCHDOG_IRQ
      [] s = "Dma" -> DMA0_IRQ
      [] s = "Spi" -> SPI0_IRQ
      [] s = "Uart0" -> UART0_IRQ
      [] s = "Uart1" -> UART1_IRQ
      [] s = "I2c" -> I2C0_IRQ
      [] s = "Pwm" -> PWM_IRQ

\* a variant of from whose table lacks the SPI0_IRQ arm and decodes
\* IRQ_NUM_BASE itself as a source
from_wrong_table(irq) ==
    CASE irq = MSIP_IRQ -> "MachineSoft"
      [] irq = MTIP_IRQ -> "MachineTimer"
      [] irq = MEIP_IRQ -> "MachineExternal"
      [] irq = GPIO_IRQ -> "Gpio"
      [] irq = TIMER_CH0_IRQ -> "TimerCh0"
      [] irq = TIMER_CH1_IRQ -> "TimerCh1"
      [] irq = WATCHDOG_IRQ -> "Watchdog"
      [] irq = DMA0_IRQ -> "Dma"
      [] irq = IRQ_NUM_BASE -> "Spi"
      [] irq = UART0_IRQ -> "Uart0"
      [] irq = UART1_IRQ -> "Uart1"
      [] irq = I2C0_IRQ -> "I2c"
      [] irq = PWM_IRQ -> "Pwm"
      [] OTHER -> "Unknown"

\* Interrupt::from
from(irq) ==
    CASE irq = MSIP_IRQ -> "MachineSoft"
      [] irq = MTIP_IRQ -> "MachineTimer"
      [] irq = MEIP_IRQ -> "MachineExternal"
      [] irq = GPIO_IRQ -> "Gpio"
      [] irq = TIMER_CH0_IRQ -> "TimerCh0"
      [] irq = TIMER_CH1_IRQ -> "TimerCh1"
      [] irq = WATCHDOG_IRQ -> "Watchdog"
      [] irq = DMA0_IRQ -> "Dma"
      [] irq = SPI0_IRQ -> "Spi"
      [] irq = UART0_IRQ -> "Uart0"
      [] irq = UART1_IRQ -> "Uart1"
      [] irq = I2C0_IRQ -> "I2c"
      [] irq = PWM_IRQ -> "Pwm"
      [] OTHER -> "Unknown"


(***************************************************************************)
(* Unsigned machine integers: u32 and u64 values are little-endian         *)
(* sequences of 4 and 8 bytes, so that 2^64 - 1 and the wrap at 2^64 are   *)
(* values of the model                                                     *)
(***************************************************************************)
RECURSIVE Bytes(_, _)
\* the len low bytes of the natural number n, least significant first
Bytes(n, len) == IF len = 0 THEN <<>> ELSE <<n % 256>> \o Bytes(n \div 256, len - 1)

\* the same sequence in the form every operator below yields
Seq8(a) == [i \in 1..Len(a) |-> a[i]]

U32(n) == Seq8(Bytes(n, 4))
U64(n) == Seq8(Bytes(n, 8))
U32_MAX == [i \in 1..4 |-> 255]
U64_MAX == [i \in 1..8 |-> 255]

RECURSIVE Carry(_, _, _)
\* the carry into byte i of a + b
Carry(a, b, i) ==
    IF i = 1 THEN 0 ELSE (a[i - 1] + b[i - 1] + Carry(a, b, i - 1)) \div 256

\* a + b modulo 2^(8 * Len(a))
WrappingAdd(a, b) == [i \in 1..Len(a) |-> (a[i] + b[i] + Carry(a, b, i)) % 256]

\* a + b does not fit the width of a
AddOverflows(a, b) == Carry(a, b, Len(a) + 1) = 1

RECURSIVE Rem(_, _, _)
\* the remainder of the bytes i..Len(a) of a, as a number, divided by d
Rem(a, d, i) ==
    IF i > Len(a) THEN 0 ELSE (Rem(a, d, i + 1) * 256 + a[i]) % d

\* a / d truncated, for 0 < d < 2^23
Div(a, d) == [i \in 1..Len(a) |-> (Rem(a, d, i + 1) * 256 + a[i]) \div d]

RECURSIVE Value(_, _)
\* the number the bytes i..Len(a) of a stand for (below 2^31)
Value(a, i) == IF i > Len(a) THEN 0 ELSE a[i] + 256 * Value(a, i + 1)

\* u32 as u64
Widen(a) == Seq8(a \o <<0, 0, 0, 0>>)

(***************************************************************************)
(* State                                                                   *)
(***************************************************************************)
VARIABLES
    conv,         \* the last conversion made through to_irq / from
    state,        \* the trap dispatcher: "Idle" or "Dispatching"
    cause,        \* start_trap_rust_hal's local: the cause register it read
    trap_frame,   \* start_trap_rust_hal's parameter: "frame" or "null"
    frame,        \* the registers saved by the entry sequence, now and at entry
    calls,        \* the callables invoked since the last trap entry, in order
    running,      \* the callable that has been invoked and has not returned
    intie,        \* the enable bank, one byte per irq
    intip,        \* the pending bank, one byte per irq
    last_call,    \* per source, the most recent of enable / disable naming it
    bank_op,      \* the last bank operation and the registers as it found them
    ops,          \* number of bank operations so far
    zeroed,       \* the enable bank was all zero before the first of them
    rtc_clk,      \* Clocks::rtc_clk(): None or Some frequency in Hz
    overflow_checks, \* the build panics on integer overflow (else it wraps)
    clic,         \* the Clic instance try_new returned, if any
    mtime,        \* the 64-bit tick counter
    mtimecmp,     \* the 64-bit compare register
    timecmp,      \* set_timecmp in progress: its position and locals
    timer_op,     \* the last completed Clic call, its result and what it found
    advances,     \* number of times the model has advanced the tick counter
    mie,          \* global interrupt delivery is enabled (mstatus.MIE)
    mtvec,        \* the vector-base register
    start_trap_hal, \* the address of the trap entry _start_trap_hal
    setup,        \* _setup_interrupts: its position and what it found
    taken,        \* the positions of _setup_interrupts at which a trap was taken
    panicked      \* a panic has terminated execution

irqVars == <<conv>>
trapVars == <<state, cause, trap_frame, frame, calls, running>>
bankVars == <<intie, intip, last_call, bank_op, ops, zeroed>>
clicVars == <<rtc_clk, overflow_checks, clic, mtime, mtimecmp, timecmp, timer_op, advances>>
setupVars == <<mie, mtvec, start_trap_hal, setup, taken>>
vars == <<irqVars, trapVars, bankVars, clicVars, setupVars, panicked>>

(***************************************************************************)
(* Interrupt source model: the conversions, applied to drawn inputs        *)
(***************************************************************************)
NoConv == [fn |-> "none", src |-> "Unknown", irq |-> PANIC,
           src2 |-> "Unknown", irq2 |-> PANIC]

IrqIdle == conv = NoConv

\* s.to_irq()
call_to_irq(s) ==
    /\ ~panicked
    /\ conv' = [NoConv EXCEPT !.fn = "to_irq", !.src = s, !.irq = to_irq(s)]
    /\ panicked' = (to_irq(s) = PANIC)
    /\ UNCHANGED <<trapVars, bankVars, clicVars, setupVars>>

\* Interrupt::from(irq)
call_from(irq) ==
    /\ ~panicked
    /\ conv' = [NoConv EXCEPT !.fn = "from", !.irq = irq, !.src = from(irq)]
    /\ UNCHANGED <<trapVars, bankVars, clicVars, panicked, setupVars>>

\* Interrupt::from(s.to_irq())
call_to_irq_from(s) ==
    /\ ~panicked
    /\ IF to_irq(s) = PANIC
       THEN /\ conv' = [NoConv EXCEPT !.fn = "to_irq;from", !.src = s]
            /\ panicked' = TRUE
       ELSE /\ conv' = [NoConv EXCEPT !.fn = "to_irq;from", !.src = s,
                                      !.irq = to_irq(s),
                                      !.src2 = from(to_irq(s))]
            /\ UNCHANGED panicked
    /\ UNCHANGED <<trapVars, bankVars, clicVars, setupVars>>

\* Interrupt::from(irq).to_irq()
call_from_to_irq(irq) ==
    /\ ~panicked
    /\ conv' = [NoConv EXCEPT !.fn = "from;to_irq", !.irq = irq,
                              !.src = from(irq), !.irq2 = to_irq(from(irq))]
    /\ panicked' = (to_irq(from(irq)) = PANIC)
    /\ UNCHANGED <<trapVars, bankVars, clicVars, setupVars>>

NextIrq ==
    \/ \E s \in Interrupt : call_to_irq(s)
    \/ \E irq \in 0..MaxIrq : call_from(irq)
    \/ \E s \in Interrupt : call_to_irq_from(s)
    \/ \E irq \in 0..MaxIrq : call_from_to_irq(irq)

(***************************************************************************)
(* Trap dispatcher: start_trap_rust_hal                                    *)
(***************************************************************************)
\* the generic path of the runtime; the other callables are the thirteen
\* extern handlers, named after their variants
GENERIC == "_start_trap_rust"

\* the saved registers, as far as frames can be told apart
Regs == {"regs_a", "regs_b"}

\* outside a trap the locals of start_trap_rust_hal do not exist
NoCause == [is_exception |-> FALSE, code |-> 0]

TrapIdle ==
    /\ state = "Idle"
    /\ cause = NoCause
    /\ trap_frame = "null"
    /\ frame = [regs |-> "regs_a", entry |-> "regs_a"]
    /\ calls = <<>>
    /\ running = "none"

\* a variant of handler with the callables of the two UART arms exchanged
handler_swapped(interrupt) ==
    CASE interrupt = "Unknown" -> GENERIC
      [] interrupt = "MachineSoft" -> "MachineSoft"
      [] interrupt = "MachineTimer" -> "MachineTimer"
      [] interrupt = "MachineExternal" -> "MachineExternal"
      [] interrupt = "Gpio" -> "Gpio"
      [] interrupt = "TimerCh0" -> "TimerCh0"
      [] interrupt = "TimerCh1" -> "TimerCh1"
      [] interrupt = "Watchdog" -> "Watchdog"
      [] interrupt = "Dma" -> "Dma"
      [] interrupt = "Spi" -> "Spi"
      [] interrupt = "Uart0" -> "Uart1"
      [] interrupt = "Uart1" -> "Uart0"
      [] interrupt = "I2c" -> "I2c"
      [] interrupt = "Pwm" -> "Pwm"

\* the arms of the match on the decoded interrupt: the callable of each variant
handler(interrupt) ==
    CASE interrupt = "Unknown" -> GENERIC
      [] interrupt = "MachineSoft" -> "MachineSoft"
      [] interrupt = "MachineTimer" -> "MachineTimer"
      [] interrupt = "MachineExternal" -> "MachineExternal"
      [] interrupt = "Gpio" -> "Gpio"
      [] interrupt = "TimerCh0" -> "TimerCh0"
      [] interrupt = "TimerCh1" -> "TimerCh1"
      [] interrupt = "Watchdog" -> "Watchdog"
      [] interrupt = "Dma" -> "Dma"
      [] interrupt = "Spi" -> "Spi"
      [] interrupt = "Uart0" -> "Uart0"
      [] interrupt = "Uart1" -> "Uart1"
      [] interrupt = "I2c" -> "I2c"
      [] interrupt = "Pwm" -> "Pwm"

\* a variant of interrupt_number that keeps the whole code
interrupt_number_whole(code) == code

\* a variant of interrupt_number with the mask 0x7f
interrupt_number_7bit(code) == code % 128

\* (code & 0xff) as u32
interrupt_number(code) == code % 256

\* a variant of route without the comparison against IRQ_NUM_BASE
route_no_threshold(c) ==
    IF c.is_exception
    THEN GENERIC
    ELSE handler(from(interrupt_number(c.code)))

\* a variant of route without the test of is_exception
route_ignores_exception(c) ==
    IF c.code < IRQ_NUM_BASE
    THEN GENERIC
    ELSE handler(from(interrupt_number(c.code)))

\* the callable start_trap_rust_hal selects for a cause
route(c) ==
    IF c.is_exception
    THEN GENERIC
    ELSE IF c.code < IRQ_NUM_BASE
         THEN GENERIC
         ELSE handler(from(interrupt_number(c.code)))

\* a trap is taken: the entry sequence has saved the registers and calls
\* start_trap_rust_hal with a pointer to them, and mcause::read() yields
\* the cause
trap(exc, code, ptr, regs) ==
    /\ ~panicked
    /\ state = "Idle"
    /\ state' = "Dispatching"
    /\ cause' = [is_exception |-> exc, code |-> code]
    /\ trap_frame' = ptr
    /\ frame' = [regs |-> regs, entry |-> regs]
    /\ calls' = <<>>
    /\ running' = "none"
    /\ UNCHANGED <<irqVars, bankVars, clicVars, panicked, setupVars>>

\* a variant of start_trap_rust_hal whose named arms fall through to the
\* generic path
start_trap_rust_hal_fallthrough ==
    /\ ~panicked
    /\ state = "Dispatching"
    /\ running = "none"
    /\ calls = <<>>
    /\ LET callee == route(cause) IN
       IF callee # GENERIC /\ trap_frame = "null"
       THEN /\ panicked' = TRUE
            /\ UNCHANGED <<calls, running>>
       ELSE /\ calls' = IF callee = GENERIC
                        THEN <<[fn |-> callee, ptr |-> trap_frame,
                                regs |-> frame.regs]>>
                        ELSE <<[fn |-> callee, ptr |-> trap_frame,
                                regs |-> frame.regs],
                               [fn |-> GENERIC, ptr |-> trap_frame,
                                regs |-> frame.regs]>>
            /\ running' = GENERIC
            /\ UNCHANGED panicked
    /\ UNCHANGED <<state, cause, trap_frame, frame, irqVars, bankVars, clicVars, setupVars>>

\* the body of start_trap_rust_hal up to and including the call it makes;
\* a named handler takes trap_frame.as_mut().unwrap(), which panics on a
\* null pointer before the handler is entered
start_trap_rust_hal ==
    /\ ~panicked
    /\ state = "Dispatching"
    /\ running = "none"
    /\ calls = <<>>
    /\ LET callee == route(cause) IN
       IF callee # GENERIC /\ trap_frame = "null"
       THEN /\ panicked' = TRUE
            /\ UNCHANGED <<calls, running>>
       ELSE /\ calls' = Append(calls, [fn |-> callee, ptr |-> trap_frame,
                                       regs |-> frame.regs])
            /\ running' = callee
            /\ UNCHANGED panicked
    /\ UNCHANGED <<state, cause, trap_frame, frame, irqVars, bankVars, clicVars, setupVars>>

\* the invoked callable returns, and start_trap_rust_hal returns after it;
\* a named handler holds &mut TrapFrame and may have written the frame, the
\* generic path holds *const TrapFrame
callee_return(regs) ==
    /\ ~panicked
    /\ state = "Dispatching"
    /\ running # "none"
    /\ running = GENERIC => regs = frame.regs
    /\ frame' = [frame EXCEPT !.regs = regs]
    /\ running' = "none"
    /\ state' = "Idle"
    /\ cause' = NoCause
    /\ trap_frame' = "null"
    /\ UNCHANGED <<calls, irqVars, bankVars, clicVars, panicked, setupVars>>

NextTrap ==
    \/ \E exc \in BOOLEAN, code \in 0..MaxCode, ptr \in {"frame", "null"}, regs \in Regs :
          trap(exc, code, ptr, regs)
    \/ start_trap_rust_hal
    \/ \E regs \in Regs : callee_return(regs)

(***************************************************************************)
(* The enable and pending banks: byte arrays at CLIC_HART0_ADDR +          *)
(* CLIC_INTIE and CLIC_HART0_ADDR + CLIC_INTIP, indexed by irq             *)
(***************************************************************************)
BankIdx == 0..(BankLen - 1)

ZeroBank == [i \in BankIdx |-> 0]
OnesBank == [i \in BankIdx |-> 1]
\* every irq of odd number flagged
OddBank == [i \in BankIdx |-> i % 2]

NoOp == [fn |-> "none", src |-> "Unknown", intie |-> ZeroBank, intip |-> ZeroBank,
         mtimecmp |-> U64(0)]

\* the enable bank after a one-byte volatile write of v at address addr
intie_after(addr, v) ==
    IF addr - (CLIC_HART0_ADDR + CLIC_INTIE) \in BankIdx
    THEN [intie EXCEPT ![addr - (CLIC_HART0_ADDR + CLIC_INTIE)] = v]
    ELSE intie

\* the pending bank after a one-byte volatile write of v at address addr
intip_after(addr, v) ==
    IF addr - (CLIC_HART0_ADDR + CLIC_INTIP) \in BankIdx
    THEN [intip EXCEPT ![addr - (CLIC_HART0_ADDR + CLIC_INTIP)] = v]
    ELSE intip

\* ptr.write_volatile(v) for ptr: *mut u8
write_volatile(addr, v) ==
    /\ intie' = intie_after(addr, v)
    /\ intip' = intip_after(addr, v)

\* the start of a bank operation: the registers as the call finds them
enter(fn, s) ==
    /\ ~panicked
    /\ ops < MaxOps
    /\ ops' = ops + 1
    /\ bank_op' = [fn |-> fn, src |-> s, intie |-> intie, intip |-> intip,
                   mtimecmp |-> U64(0)]

\* a variant of enable_interrupt that addresses the pending bank
enable_interrupt_intip(interrupt) ==
    /\ enter("enable_interrupt", interrupt)
    /\ LET irq == to_irq(interrupt) IN
       IF irq = PANIC
       THEN /\ panicked' = TRUE
            /\ UNCHANGED <<intie, intip, last_call>>
       ELSE /\ write_volatile(CLIC_HART0_ADDR + CLIC_INTIP + irq, 1)
            /\ last_call' = [last_call EXCEPT ![interrupt] = "enable"]
            /\ UNCHANGED panicked
    /\ UNCHANGED <<zeroed, irqVars, trapVars, clicVars, setupVars>>

enable_interrupt(interrupt) ==
    /\ enter("enable_interrupt", interrupt)
    /\ LET irq == to_irq(interrupt) IN
       IF irq = PANIC
       THEN /\ panicked' = TRUE
            /\ UNCHANGED <<intie, intip, last_call>>
       ELSE /\ write_volatile(CLIC_HART0_ADDR + CLIC_INTIE + irq, 1)
            /\ last_call' = [last_call EXCEPT ![interrupt] = "enable"]
            /\ UNCHANGED panicked
    /\ UNCHANGED <<zeroed, irqVars, trapVars, clicVars, setupVars>>

disable_interrupt(interrupt) ==
    /\ enter("disable_interrupt", interrupt)
    /\ LET irq == to_irq(interrupt) IN
       IF irq = PANIC
       THEN /\ panicked' = TRUE
            /\ UNCHANGED <<intie, intip, last_call>>
       ELSE /\ write_volatile(CLIC_HART0_ADDR + CLIC_INTIE + irq, 0)
            /\ last_call' = [last_call EXCEPT ![interrupt] = "disable"]
            /\ UNCHANGED panicked
    /\ UNCHANGED <<zeroed, irqVars, trapVars, clicVars, setupVars>>

\* a variant of clear_interrupt that clears a 32-bit word, not a byte
clear_interrupt_word(interrupt) ==
    /\ enter("clear_interrupt", interrupt)
    /\ LET irq == to_irq(interrupt) IN
       IF irq = PANIC
       THEN /\ panicked' = TRUE
            /\ UNCHANGED <<intie, intip>>
       ELSE /\ intip' = [i \in BankIdx |->
                            IF i \in irq..(irq + 3) THEN 0 ELSE intip[i]]
            /\ UNCHANGED <<intie, panicked>>
    /\ UNCHANGED <<last_call, zeroed, irqVars, trapVars, clicVars, setupVars>>

clear_interrupt(interrupt) ==
    /\ enter("clear_interrupt", interrupt)
    /\ LET irq == to_irq(interrupt) IN
       IF irq = PANIC
       THEN /\ panicked' = TRUE
            /\ UNCHANGED <<intie, intip>>
       ELSE /\ write_volatile(CLIC_HART0_ADDR + CLIC_INTIP + irq, 0)
            /\ UNCHANGED panicked
    /\ UNCHANGED <<last_call, zeroed, irqVars, trapVars, clicVars, setupVars>>

BankIdle ==
    /\ intie = ZeroBank
    /\ intip = ZeroBank
    /\ last_call = [s \in Known |-> "none"]
    /\ bank_op = NoOp
    /\ ops = 0
    /\ zeroed = TRUE

\* the enable bank is zeroed, or holds what earlier code left in it
EnableInit ==
    /\ intie \in {ZeroBank, OnesBank}
    /\ intip = OddBank
    /\ last_call = [s \in Known |-> "none"]
    /\ bank_op = NoOp
    /\ ops = 0
    /\ zeroed = (intie = ZeroBank)

\* the banks hold what the hardware and earlier code left in them
ClearInit ==
    /\ intie \in {ZeroBank, OnesBank, OddBank}
    /\ intip \in {ZeroBank, OnesBank, OddBank}
    /\ last_call = [s \in Known |-> "none"]
    /\ bank_op = NoOp
    /\ ops = 0
    /\ zeroed = (intie = ZeroBank)

NextEnable ==
    \/ \E s \in Interrupt : enable_interrupt(s)
    \/ \E s \in Interrupt : disable_interrupt(s)

NextClear ==
    \E s \in Interrupt : clear_interrupt(s)

\* the three operations on the banks, mixed
NextBank ==
    \/ \E s \in Interrupt : ops < MaxMixedOps /\ enable_interrupt(s)
    \/ \E s \in Interrupt : ops < MaxMixedOps /\ disable_interrupt(s)
    \/ \E s \in Interrupt : ops < MaxMixedOps /\ clear_interrupt(s)

(***************************************************************************)
(* _setup_interrupts, statement by statement                               *)
(***************************************************************************)
\* TrapMode::Direct as usize
TRAPMODE_DIRECT == 0

\* the length of the slices e and p: 16 + 8 entries of type u32
SLICE_LEN == 16 + 8

\* addresses at which the trap entry may be linked (4-byte aligned)
TrapEntries == {64, 587202560, 587206748}

NoSetup == [pc |-> "idle", k |-> 0, mie |-> FALSE,
            intie |-> ZeroBank, intip |-> ZeroBank]

\* _setup_interrupts has run before the state the other parts start in
SetupIdle ==
    /\ mie = TRUE
    /\ mtvec = 0
    /\ start_trap_hal = 64
    /\ setup = NoSetup
    /\ taken = {}

\* _setup_interrupts has not been called: the banks, the vector base and
\* the global enable hold what reset and earlier code left in them
SetupInit ==
    /\ mie \in BOOLEAN
    /\ mtvec \in {0, 1}
    /\ start_trap_hal \in TrapEntries
    /\ setup = NoSetup
    /\ taken = {}
    /\ intie \in {ZeroBank, OnesBank, OddBank}
    /\ intip \in {ZeroBank, OnesBank, OddBank}
    /\ last_call = [s \in Known |-> "none"]
    /\ bank_op = NoOp
    /\ ops = 0
    /\ zeroed = FALSE

\* addr | 2
BitOr2(addr) == IF (addr \div 2) % 2 = 1 THEN addr ELSE addr + 2

\* a variant of new_mtvec_bits without the | 2
new_mtvec_plain == start_trap_hal

\* new_mtvec | 2, new_mtvec being _start_trap_hal as usize
new_mtvec_bits == BitOr2(start_trap_hal)

\* riscv::register::mtvec::write(addr, mode): the register receives
\* addr + mode as usize
mtvec_write(addr, mode) == addr + mode

\* a variant of entry for slices of u8
entry_u8(k) == {k}

\* the bytes of entry k of a slice of u32 laid over a bank
entry(k) == (4 * k)..(4 * k + 3)

\* a variant of setup_disable that leaves global delivery as it is
setup_disable_skipped ==
    /\ ~panicked
    /\ setup.pc = "idle"
    /\ setup' = [pc |-> "disabled", k |-> 0, mie |-> mie,
                 intie |-> intie, intip |-> intip]
    /\ UNCHANGED <<mie, mtvec, start_trap_hal, taken>>
    /\ UNCHANGED <<irqVars, trapVars, bankVars, clicVars, panicked>>

\* riscv::interrupt::disable()
setup_disable ==
    /\ ~panicked
    /\ setup.pc = "idle"
    /\ mie' = FALSE
    /\ setup' = [pc |-> "disabled", k |-> 0, mie |-> mie,
                 intie |-> intie, intip |-> intip]
    /\ UNCHANGED <<mtvec, start_trap_hal, taken>>
    /\ UNCHANGED <<irqVars, trapVars, bankVars, clicVars, panicked>>

\* riscv::register::mtvec::write(new_mtvec | 2, TrapMode::Direct)
setup_write_mtvec ==
    /\ setup.pc = "disabled"
    /\ mtvec' = mtvec_write(new_mtvec_bits, TRAPMODE_DIRECT)
    /\ setup' = [setup EXCEPT !.pc = "zero_e"]
    /\ UNCHANGED <<mie, start_trap_hal, taken>>
    /\ UNCHANGED <<irqVars, trapVars, bankVars, clicVars, panicked>>

\* the bank after *v = 0 for entry k of the slice laid over it
zero_entry(bank, k) == [i \in BankIdx |-> IF i \in entry(k) THEN 0 ELSE bank[i]]

\* e.iter_mut().for_each(|v| *v = 0), one entry
setup_zero_e ==
    /\ setup.pc = "zero_e"
    /\ intie' = zero_entry(intie, setup.k)
    /\ setup' = IF setup.k + 1 < SLICE_LEN
                THEN [setup EXCEPT !.k = setup.k + 1]
                ELSE [setup EXCEPT !.pc = "zero_p", !.k = 0]
    /\ UNCHANGED <<intip, last_call, bank_op, ops, zeroed>>
    /\ UNCHANGED <<mie, mtvec, start_trap_hal, taken>>
    /\ UNCHANGED <<irqVars, trapVars, clicVars, panicked>>

\* p.iter_mut().for_each(|v| *v = 0), one entry
setup_zero_p ==
    /\ setup.pc = "zero_p"
    /\ intip' = zero_entry(intip, setup.k)
    /\ setup' = IF setup.k + 1 < SLICE_LEN
                THEN [setup EXCEPT !.k = setup.k + 1]
                ELSE [setup EXCEPT !.pc = "enable", !.k = 0]
    /\ UNCHANGED <<intie, last_call, bank_op, ops, zeroed>>
    /\ UNCHANGED <<mie, mtvec, start_trap_hal, taken>>
    /\ UNCHANGED <<irqVars, trapVars, clicVars, panicked>>

\* riscv::interrupt::enable(), and the return
setup_enable ==
    /\ setup.pc = "enable"
    /\ mie' = TRUE
    /\ setup' = [setup EXCEPT !.pc = "done"]
    /\ UNCHANGED <<mtvec, start_trap_hal, taken>>
    /\ UNCHANGED <<irqVars, trapVars, bankVars, clicVars, panicked>>

\* the hart takes an interrupt, which it does only while global delivery
\* is enabled; the handler returns to the interrupted statement
take_interrupt ==
    /\ mie
    /\ setup.pc \notin taken
    /\ taken' = taken \cup {setup.pc}
    /\ UNCHANGED <<mie, mtvec, start_trap_hal, setup>>
    /\ UNCHANGED <<irqVars, trapVars, bankVars, clicVars, panicked>>

NextSetup ==
    \/ setup_disable
    \/ setup_write_mtvec
    \/ setup_zero_e
    \/ setup_zero_p
    \/ setup_enable
    \/ take_interrupt

(***************************************************************************)
(* Clic: the machine timer                                                 *)
(***************************************************************************)
\* Option<T>
None == <<>>
Some(x) == <<x>>

\* the frequencies Clocks::rtc_clk() is drawn from, in Hz
Frequencies ==
    {U32(999), U32(1000), U32(32768), U32(1000000), U32_MAX}

\* 2^64 - 1000
NearMax == Seq8(<<24, 252, 255, 255, 255, 255, 255, 255>>)

\* the values the tick counter starts from
Ticks == {U64(0), U64(10000), U64(65536), U64(5000000), NearMax, U64_MAX}

\* the delays handed to set_timecmp
Delays == {U64(0), U64(1000), U64_MAX}

\* the steps by which the model advances the tick counter
Increments == {U64(1), U64(999)}

NoTimecmp == [pc |-> "idle", t |-> U64(0), delay |-> U64(0), preempted |-> FALSE,
              handler |-> None]

NoTimerOp == [fn |-> "none", ret |-> U64(0), t |-> U64(0), delay |-> U64(0),
              preempted |-> FALSE, handler |-> None, accessed |-> {}]

ClicIdle ==
    /\ rtc_clk = None
    /\ overflow_checks = FALSE
    /\ clic = None
    /\ mtime = U64(0)
    /\ mtimecmp = U64(0)
    /\ timecmp = NoTimecmp
    /\ timer_op = NoTimerOp
    /\ advances = 0

ClicInit ==
    /\ rtc_clk \in {None} \cup {Some(f) : f \in Frequencies}
    /\ overflow_checks \in BOOLEAN
    /\ clic = None
    /\ mtime \in Ticks
    /\ mtimecmp = U64(0)
    /\ timecmp = NoTimecmp
    /\ timer_op = NoTimerOp
    /\ advances = 0

\* the register a 64-bit volatile read at addr yields
read_volatile(addr) ==
    IF addr = CLIC_CTRL_ADDR + CLIC_MTIME THEN mtime ELSE mtimecmp

\* a variant of kilohertz that rounds to the nearest kHz
kilohertz_rounded(freq) == Widen(Div(WrappingAdd(freq, U32(500)), 1000))

\* Kilohertz::<u32>::from(freq).integer() as u64
kilohertz(freq) == Widen(Div(freq, 1000))

\* a variant of megahertz with the factor of kilohertz
megahertz_kilo(freq) == Widen(Div(freq, 1000))

\* Megahertz::<u32>::from(freq).integer() as u64
megahertz(freq) == Widen(Div(freq, 1000000))

\* the hardware counts: mtime advances (its wrap at 2^64 is left out)
tick(inc) ==
    /\ ~panicked
    /\ advances < MaxAdvances
    /\ ~AddOverflows(mtime, inc)
    /\ mtime' = WrappingAdd(mtime, inc)
    /\ advances' = advances + 1
    /\ UNCHANGED <<rtc_clk, overflow_checks, clic, mtimecmp, timecmp, timer_op>>
    /\ UNCHANGED <<irqVars, trapVars, bankVars, panicked, setupVars>>

\* a variant of try_new that falls back to a frequency of 0 Hz
try_new_or_default ==
    /\ ~panicked
    /\ clic = None
    /\ timer_op.fn = "none"
    /\ clic' = IF rtc_clk = None THEN Some([freq |-> U32(0)])
                                ELSE Some([freq |-> rtc_clk[1]])
    /\ timer_op' = [NoTimerOp EXCEPT !.fn = "try_new"]
    /\ UNCHANGED <<rtc_clk, overflow_checks, mtime, mtimecmp, timecmp, advances>>
    /\ UNCHANGED <<irqVars, trapVars, bankVars, panicked, setupVars>>

\* Clic::try_new(clocks)
try_new ==
    /\ ~panicked
    /\ clic = None
    /\ timer_op.fn = "none"
    /\ clic' = IF rtc_clk = None THEN None ELSE Some([freq |-> rtc_clk[1]])
    /\ timer_op' = [NoTimerOp EXCEPT !.fn = "try_new"]
    /\ UNCHANGED <<rtc_clk, overflow_checks, mtime, mtimecmp, timecmp, advances>>
    /\ UNCHANGED <<irqVars, trapVars, bankVars, panicked, setupVars>>

\* self.get_ticks()
get_ticks ==
    /\ ~panicked
    /\ clic # None
    /\ timecmp.pc = "idle"
    /\ timer_op' = [NoTimerOp EXCEPT !.fn = "get_ticks",
                                     !.t = read_volatile(CLIC_CTRL_ADDR + CLIC_MTIME),
                                     !.ret = read_volatile(CLIC_CTRL_ADDR + CLIC_MTIME),
                                     !.accessed = {CLIC_CTRL_ADDR + CLIC_MTIME}]
    /\ UNCHANGED <<rtc_clk, overflow_checks, clic, mtime, mtimecmp, timecmp, advances>>
    /\ UNCHANGED <<irqVars, trapVars, bankVars, panicked, setupVars>>

\* get_ticks() / scale, where a zero scale panics (division by zero)
scaled_time(fn, scale) ==
    /\ ~panicked
    /\ clic # None
    /\ timecmp.pc = "idle"
    /\ LET ticks == read_volatile(CLIC_CTRL_ADDR + CLIC_MTIME) IN
       IF Value(scale, 1) = 0
       THEN /\ panicked' = TRUE
            /\ timer_op' = [NoTimerOp EXCEPT !.fn = fn, !.t = ticks,
                                             !.accessed = {CLIC_CTRL_ADDR + CLIC_MTIME}]
       ELSE /\ timer_op' = [NoTimerOp EXCEPT !.fn = fn, !.t = ticks,
                                             !.ret = Div(ticks, Value(scale, 1)),
                                             !.accessed = {CLIC_CTRL_ADDR + CLIC_MTIME}]
            /\ UNCHANGED panicked
    /\ UNCHANGED <<rtc_clk, overflow_checks, clic, mtime, mtimecmp, timecmp, advances>>
    /\ UNCHANGED <<irqVars, trapVars, bankVars, setupVars>>

\* self.get_time_ms()
get_time_ms == clic # None /\ scaled_time("get_time_ms", kilohertz(clic[1].freq))

\* self.get_time_us()
get_time_us == clic # None /\ scaled_time("get_time_us", megahertz(clic[1].freq))

\* set_timecmp(delay), first half: the call is entered and self.get_ticks()
\* has read the tick counter
set_timecmp_read(delay) ==
    /\ ~panicked
    /\ clic # None
    /\ timecmp.pc = "idle"
    /\ timecmp' = [pc |-> "read", t |-> read_volatile(CLIC_CTRL_ADDR + CLIC_MTIME),
                   delay |-> delay, preempted |-> FALSE, handler |-> None]
    /\ UNCHANGED <<rtc_clk, overflow_checks, clic, mtime, mtimecmp, timer_op, advances>>
    /\ UNCHANGED <<irqVars, trapVars, bankVars, panicked, setupVars>>

\* the registers after a 64-bit volatile write of v at addr
mtimecmp_after(addr, v) ==
    IF addr = CLIC_CTRL_ADDR + CLIC_MTIMECMP THEN v ELSE mtimecmp

mtime_after(addr, v) ==
    IF addr = CLIC_CTRL_ADDR + CLIC_MTIME THEN v ELSE mtime

\* the sum self.get_ticks() + delay is formed and written with one 64-bit
\* volatile write at addr; the sum panics on overflow in a build with
\* overflow checks and wraps in one without
store_sum(addr) ==
    /\ ~panicked
    /\ timecmp.pc = "read"
    /\ IF overflow_checks /\ AddOverflows(timecmp.t, timecmp.delay)
       THEN /\ panicked' = TRUE
            /\ UNCHANGED <<mtime, mtimecmp>>
            /\ timer_op' = [NoTimerOp EXCEPT !.fn = "set_timecmp", !.t = timecmp.t,
                                             !.delay = timecmp.delay,
                                             !.preempted = timecmp.preempted,
                                             !.handler = timecmp.handler,
                                             !.accessed = {CLIC_CTRL_ADDR + CLIC_MTIME}]
       ELSE /\ mtimecmp' = mtimecmp_after(addr, WrappingAdd(timecmp.t, timecmp.delay))
            /\ mtime' = mtime_after(addr, WrappingAdd(timecmp.t, timecmp.delay))
            /\ timer_op' = [NoTimerOp EXCEPT !.fn = "set_timecmp", !.t = timecmp.t,
                                             !.delay = timecmp.delay,
                                             !.preempted = timecmp.preempted,
                                             !.handler = timecmp.handler,
                                             !.accessed = {CLIC_CTRL_ADDR + CLIC_MTIME, addr}]
            /\ UNCHANGED panicked
    /\ timecmp' = NoTimecmp
    /\ UNCHANGED <<rtc_clk, overflow_checks, clic, advances>>
    /\ UNCHANGED <<irqVars, trapVars, bankVars, setupVars>>

\* a variant of set_timecmp_write that reads the tick counter anew, so that
\* the read and the write are one step
set_timecmp_write_reread ==
    /\ ~panicked
    /\ timecmp.pc = "read"
    /\ LET t == read_volatile(CLIC_CTRL_ADDR + CLIC_MTIME) IN
       IF overflow_checks /\ AddOverflows(t, timecmp.delay)
       THEN /\ panicked' = TRUE
            /\ UNCHANGED mtimecmp
       ELSE /\ mtimecmp' = WrappingAdd(t, timecmp.delay)
            /\ UNCHANGED panicked
    /\ timer_op' = [NoTimerOp EXCEPT !.fn = "set_timecmp", !.t = timecmp.t,
                                     !.delay = timecmp.delay,
                                     !.preempted = timecmp.preempted,
                                     !.handler = timecmp.handler,
                                     !.accessed = {CLIC_CTRL_ADDR + CLIC_MTIME}]
    /\ timecmp' = NoTimecmp
    /\ UNCHANGED <<rtc_clk, overflow_checks, clic, mtime, advances>>
    /\ UNCHANGED <<irqVars, trapVars, bankVars, setupVars>>

\* a variant of set_timecmp_write that addresses the tick counter
set_timecmp_write_mtime == store_sum(CLIC_CTRL_ADDR + CLIC_MTIME)

\* set_timecmp(delay), second half: the write to mtimecmp, and the return
set_timecmp_write == store_sum(CLIC_CTRL_ADDR + CLIC_MTIMECMP)

\* a trap handler that itself calls set_timecmp(delay) runs to completion
\* between the read and the write of the interrupted set_timecmp
preempting_set_timecmp(delay) ==
    /\ ~panicked
    /\ timecmp.pc = "read"
    /\ ~timecmp.preempted
    /\ LET t == read_volatile(CLIC_CTRL_ADDR + CLIC_MTIME) IN
       IF overflow_checks /\ AddOverflows(t, delay)
       THEN /\ panicked' = TRUE
            /\ UNCHANGED <<mtime, mtimecmp>>
       ELSE /\ mtimecmp' = mtimecmp_after(CLIC_CTRL_ADDR + CLIC_MTIMECMP,
                                          WrappingAdd(t, delay))
            /\ mtime' = mtime_after(CLIC_CTRL_ADDR + CLIC_MTIMECMP,
                                    WrappingAdd(t, delay))
            /\ UNCHANGED panicked
    /\ timecmp' = [timecmp EXCEPT
                      !.preempted = TRUE,
                      !.handler = Some([t |-> read_volatile(CLIC_CTRL_ADDR + CLIC_MTIME),
                                        delay |-> delay])]
    /\ UNCHANGED <<rtc_clk, overflow_checks, clic, timer_op, advances>>
    /\ UNCHANGED <<irqVars, trapVars, bankVars, setupVars>>

NextClic ==
    \/ \E inc \in Increments : tick(inc)
    \/ try_new
    \/ get_ticks
    \/ get_time_ms
    \/ get_time_us
    \/ \E delay \in Delays : set_timecmp_read(delay)
    \/ set_timecmp_write
    \/ \E delay \in Delays : preempting_set_timecmp(delay)

(***************************************************************************)
(* Specifications                                                          *)
(***************************************************************************)
InitIrq ==
    IrqIdle /\ TrapIdle /\ BankIdle /\ ClicIdle /\ SetupIdle /\ panicked = FALSE

SpecIrq == InitIrq /\ [][NextIrq]_vars

InitTrap ==
    IrqIdle /\ TrapIdle /\ BankIdle /\ ClicIdle /\ SetupIdle /\ panicked = FALSE

SpecTrap == InitTrap /\ [][NextTrap]_vars

\* the dispatcher runs on to the call it makes, and the callable returns
SpecTrapLive ==
    /\ InitTrap
    /\ [][NextTrap]_vars
    /\ WF_vars(start_trap_rust_hal)
    /\ WF_vars(\E regs \in Regs : callee_return(regs))

InitEnable ==
    IrqIdle /\ TrapIdle /\ EnableInit /\ ClicIdle /\ SetupIdle /\ panicked = FALSE

SpecEnable == InitEnable /\ [][NextEnable]_vars

InitClear ==
    IrqIdle /\ TrapIdle /\ ClearInit /\ ClicIdle /\ SetupIdle /\ panicked = FALSE

SpecClear == InitClear /\ [][NextClear]_vars

InitClic ==
    IrqIdle /\ TrapIdle /\ BankIdle /\ ClicInit /\ SetupIdle /\ panicked = FALSE

SpecClic == InitClic /\ [][NextClic]_vars

InitBank ==
    IrqIdle /\ TrapIdle /\ ClearInit /\ ClicIdle /\ SetupIdle /\ panicked = FALSE

SpecBank == InitBank /\ [][NextBank]_vars

InitSetup == IrqIdle /\ TrapIdle /\ SetupInit /\ ClicIdle /\ panicked = FALSE

SpecSetup == InitSetup /\ [][NextSetup]_vars

(***************************************************************************)
(* Properties                                                              *)
(***************************************************************************)
\* the irq table of the memory map: machine-software 3, machine-timer 7,
\* machine-external 11, and 16 + the index of each peripheral
IrqTable ==
    {<<3, "MachineSoft">>, <<7, "MachineTimer">>, <<11, "MachineExternal">>,
     <<31, "Dma">>, <<43, "Spi">>, <<45, "Uart0">>, <<46, "Uart1">>,
     <<48, "I2c">>, <<50, "Pwm">>, <<52, "TimerCh0">>, <<53, "TimerCh1">>,
     <<54, "Watchdog">>, <<60, "Gpio">>}

TableIrqs == {e[1] : e \in IrqTable}

PeripheralIrqs == {n \in TableIrqs : n >= 16}

\* C1: for every variant s other than Unknown, Interrupt::from(s.to_irq())
\* is s, and no other such variant has the irq number of s.
C1_ToIrqThenFrom ==
    /\ (conv.fn = "to_irq;from" /\ conv.src \in Known)
          => (~panicked /\ conv.src2 = conv.src)
    /\ (conv.fn = "to_irq" /\ conv.src \in Known)
          => (~panicked /\ \A s \in Known \ {conv.src} : to_irq(s) # conv.irq)

C1_Witness ==
    /\ conv.fn = "to_irq;from"
    /\ conv.src = "Gpio"
    /\ conv.irq = 60
    /\ conv.src2 = "Gpio"

\* C2: Interrupt::from returns for every irq: for an irq of the table the
\* source the table gives, whose to_irq is that irq again, and for every
\* other irq Unknown.
C2_FromAgreesWithTable ==
    conv.fn = "from;to_irq" =>
        IF conv.irq \in TableIrqs
        THEN /\ <<conv.irq, conv.src>> \in IrqTable
             /\ conv.irq2 = conv.irq
             /\ ~panicked
        ELSE conv.src = "Unknown"

C2_Witness ==
    /\ conv.fn = "from;to_irq"
    /\ conv.irq = 43
    /\ conv.src = "Spi"
    /\ conv.irq2 = 43

C4_UnknownCodeToGeneric ==
    (state = "Dispatching" /\ ~cause.is_exception /\ cause.code \notin TableIrqs) =>
        /\ ~panicked
        /\ running \in {"none", GENERIC}
        /\ \A i \in 1..Len(calls) : calls[i].fn = GENERIC

\* C4 as amended: an interrupt trap whose cause code is below 16, or whose
\* cause code modulo 256 is not an irq of the table, is forwarded to the
\* generic path; no named handler is invoked and the dispatcher does not
\* panic.
C4_UnknownLowByteToGeneric ==
    (/\ state = "Dispatching"
     /\ ~cause.is_exception
     /\ (cause.code < 16 \/ (cause.code % 256) \notin TableIrqs)) =>
        /\ ~panicked
        /\ running \in {"none", GENERIC}
        /\ \A i \in 1..Len(calls) : calls[i].fn = GENERIC
        /\ running # "none" => Len(calls) = 1

C4_Witness ==
    /\ state = "Dispatching"
    /\ ~cause.is_exception
    /\ cause.code = 200
    /\ trap_frame = "null"
    /\ running = GENERIC
    /\ Len(calls) = 1

\* C5: for an interrupt trap whose cause code is the irq of a peripheral
\* source and whose trap-frame pointer is not null, the dispatcher invokes
\* the handler named after that source, once, with that frame, and invokes
\* nothing else.
C5_PeripheralToOwnHandler ==
    (/\ state = "Dispatching"
     /\ ~cause.is_exception
     /\ cause.code \in PeripheralIrqs
     /\ trap_frame # "null") =>
        /\ ~panicked
        /\ Len(calls) <= 1
        /\ \A i \in 1..Len(calls) :
              /\ <<cause.code, calls[i].fn>> \in IrqTable
              /\ calls[i].ptr = trap_frame
              /\ calls[i].regs = frame.entry
        /\ running # "none" => (Len(calls) = 1 /\ running = calls[1].fn)

C5_Witness ==
    /\ state = "Dispatching"
    /\ ~cause.is_exception
    /\ cause.code = 60
    /\ running = "Gpio"
    /\ calls = <<[fn |-> "Gpio", ptr |-> "frame", regs |-> frame.entry]>>

\* C6: for a trap whose cause is an exception, whatever its code, the
\* dispatcher forwards the trap frame as it received it to the generic
\* path and invokes no named handler.
C6_ExceptionToGeneric ==
    (state = "Dispatching" /\ cause.is_exception) =>
        /\ ~panicked
        /\ frame.regs = frame.entry
        /\ running \in {"none", GENERIC}
        /\ Len(calls) <= 1
        /\ \A i \in 1..Len(calls) :
              calls[i] = [fn |-> GENERIC, ptr |-> trap_frame, regs |-> frame.entry]
        /\ running # "none" => Len(calls) = 1

C6_Witness ==
    /\ state = "Dispatching"
    /\ cause.is_exception
    /\ cause.code = 60
    /\ running = GENERIC
    /\ Len(calls) = 1

\* C7: starting from a zeroed enable bank, after any sequence of
\* enable_interrupt / disable_interrupt calls on known sources the enable
\* byte of a source s is 1 if the most recent call naming s was
\* enable_interrupt and 0 otherwise; each call writes only the enable byte
\* of its own source.
C7_EnableByteFollowsLastCall ==
    /\ zeroed =>
          \A e \in IrqTable :
              intie[e[1]] = IF last_call[e[2]] = "enable" THEN 1 ELSE 0
    /\ (bank_op.fn \in {"enable_interrupt", "disable_interrupt"}
            /\ bank_op.src \in Known) =>
          /\ ~panicked
          /\ \E e \in IrqTable :
                /\ e[2] = bank_op.src
                /\ \A i \in BankIdx \ {e[1]} : intie[i] = bank_op.intie[i]
          /\ intip = bank_op.intip

C7_Witness ==
    /\ zeroed
    /\ ops = 3
    /\ last_call["Gpio"] = "disable"
    /\ last_call["Uart0"] = "enable"
    /\ intie[60] = 0
    /\ intie[45] = 1
    /\ bank_op.fn = "disable_interrupt"
    /\ bank_op.intie[60] = 1

\* C8: clear_interrupt(s) for a known source s sets the pending byte of s
\* to 0 and leaves every other pending byte, every enable byte and the
\* timer compare register as they were.
C8_ClearOnlyOwnPendingByte ==
    (bank_op.fn = "clear_interrupt" /\ bank_op.src \in Known) =>
        /\ ~panicked
        /\ \E e \in IrqTable :
              /\ e[2] = bank_op.src
              /\ intip[e[1]] = 0
              /\ \A i \in BankIdx \ {e[1]} : intip[i] = bank_op.intip[i]
        /\ intie = bank_op.intie
        /\ mtimecmp = bank_op.mtimecmp

C8_Witness ==
    /\ bank_op.fn = "clear_interrupt"
    /\ bank_op.src = "Uart0"
    /\ bank_op.intip[45] = 1
    /\ bank_op.intip[43] = 1
    /\ intip[45] = 0
    /\ intip[43] = 1
    /\ intie = OnesBank

\* a 64-bit value below 2^30, which Value can turn into a number
Small(a) == a[4] < 64 /\ \A i \in 5..8 : a[i] = 0

\* C9: set_timecmp(delay) that is not preempted leaves the compare register
\* equal to t + delay, t being the tick value it read, whenever t + delay is
\* below 2^64 (10,000 and 1,000 give 11,000); no step of set_timecmp writes
\* the tick counter or a byte of the enable or pending bank.
C9_TimecmpIsTicksPlusDelay ==
    /\ [](
        (/\ timer_op.fn = "set_timecmp"
         /\ ~timer_op.preempted
         /\ timecmp.pc = "idle"
         /\ ~AddOverflows(timer_op.t, timer_op.delay)) =>
            /\ ~panicked
            /\ mtimecmp = WrappingAdd(timer_op.t, timer_op.delay)
            /\ (Small(timer_op.t) /\ Small(timer_op.delay)) =>
                  Value(mtimecmp, 1) = Value(timer_op.t, 1) + Value(timer_op.delay, 1)
            /\ (timer_op.t = U64(10000) /\ timer_op.delay = U64(1000)) =>
                  mtimecmp = U64(11000))
    /\ [][timecmp' # timecmp =>
            (mtime' = mtime /\ intie' = intie /\ intip' = intip)]_vars

C9_Witness ==
    /\ timer_op.fn = "set_timecmp"
    /\ ~timer_op.preempted
    /\ timecmp.pc = "idle"
    /\ timer_op.t = U64(10000)
    /\ timer_op.delay = U64(1000)
    /\ mtimecmp = U64(11000)

\* C10: once a Clic instance exists, none of get_ticks, get_time_ms,
\* get_time_us and set_timecmp panics, whatever the frequency, the tick
\* value and the delay.
C10_ClicCallsNeverPanic ==
    clic # None => ~panicked

\* fn is the call made last, and it is over
LastCall(fn) == timer_op.fn = fn /\ timecmp.pc = "idle"

\* C11 as claimed: get_time_us() on an instance of 1,000,000 Hz, the tick
\* counter reading 5,000,000, returns 5.
C11_TimeUsIsFive ==
    (/\ LastCall("get_time_us")
     /\ clic = Some([freq |-> U32(1000000)])
     /\ timer_op.t = U64(5000000)) =>
        (~panicked /\ timer_op.ret = U64(5))

\* C11 as amended: get_time_us() on an instance of 1,000,000 Hz, the tick
\* counter reading 5,000,000, returns 5,000,000 (the scale is 1).
C11_TimeUsIsTicksAtOneMegahertz ==
    (/\ LastCall("get_time_us")
     /\ clic = Some([freq |-> U32(1000000)])
     /\ timer_op.t = U64(5000000)) =>
        (~panicked /\ Value(timer_op.ret, 1) = 5000000)

C11_Witness ==
    /\ timer_op.fn = "get_time_us"
    /\ clic = Some([freq |-> U32(1000000)])
    /\ timer_op.t = U64(5000000)
    /\ timer_op.ret = U64(5000000)
    /\ ~panicked

\* a frequency of at least 1000 Hz
AtLeastOneKilohertz(f) == f[3] > 0 \/ f[4] > 0 \/ f[1] + 256 * f[2] >= 1000

\* C12: get_time_ms() returns ticks div (freq div 1000) for every tick value
\* and every frequency of at least 1000 Hz; 32,768 Hz and 65,536 ticks give
\* 2,048.
C12_TimeMsIsTicksByKilohertz ==
    (/\ LastCall("get_time_ms")
     /\ clic # None
     /\ AtLeastOneKilohertz(clic[1].freq)) =>
        /\ ~panicked
        /\ timer_op.accessed = {CLIC_CTRL_ADDR + CLIC_MTIME}
        /\ (Small(timer_op.t) /\ Small(Widen(clic[1].freq))) =>
              Value(timer_op.ret, 1) =
                  Value(timer_op.t, 1) \div (Value(clic[1].freq, 1) \div 1000)
        /\ clic[1].freq = U32(32768) =>
              timer_op.ret = Div(timer_op.t, 32)
        /\ clic[1].freq = U32_MAX =>
              timer_op.ret = Div(timer_op.t, 4294967)
        /\ (clic[1].freq = U32(32768) /\ timer_op.t = U64(65536)) =>
              timer_op.ret = U64(2048)

C12_Witness ==
    /\ timer_op.fn = "get_time_ms"
    /\ clic = Some([freq |-> U32(32768)])
    /\ timer_op.t = U64(65536)
    /\ timer_op.ret = U64(2048)

\* C13: try_new returns an instance exactly when the clock configuration
\* reports an RTC frequency; the instance stores that frequency; when none
\* is returned no register has been accessed.
C13_TryNewIffRtc ==
    LastCall("try_new") =>
        /\ ~panicked
        /\ (clic # None) <=> (rtc_clk # None)
        /\ clic # None => clic = Some([freq |-> rtc_clk[1]])
        /\ timer_op.accessed = {}
        /\ mtimecmp = U64(0)
        /\ timecmp = NoTimecmp

C13_Witness ==
    /\ timer_op.fn = "try_new"
    /\ rtc_clk = None
    /\ clic = None
    /\ mtime = U64(10000)

\* C14: to_irq(Unknown) panics and never yields a number; enable_interrupt,
\* disable_interrupt and clear_interrupt of Unknown terminate before they
\* write a byte, so both banks are as they were when the call was entered.
C14_UnknownPanicsBeforeWrite ==
    /\ to_irq("Unknown") = PANIC
    /\ PANIC \notin Nat
    /\ \A s \in Known : to_irq(s) \in Nat
    /\ (bank_op.fn # "none" /\ bank_op.src = "Unknown") =>
          /\ panicked
          /\ intie = bank_op.intie
          /\ intip = bank_op.intip
    /\ (bank_op.fn # "none" /\ bank_op.src # "Unknown") => ~panicked

C14_Witness ==
    /\ bank_op.fn = "clear_interrupt"
    /\ bank_op.src = "Unknown"
    /\ ops = 2
    /\ panicked
    /\ intip # OnesBank
    /\ intip # ZeroBank
    /\ intip # OddBank

\* the bytes under the slices e and p
SliceBytes == 0..(4 * SLICE_LEN - 1)

\* C15: after setup_interrupts() returns, whatever the banks held before,
\* the enable byte and the pending byte of every known source (indices up
\* to 60) are 0, as are the bytes of the first 24 entries of each bank, and
\* global interrupt delivery is enabled.
C15_SetupLeavesSourcesOff ==
    setup.pc = "done" =>
        /\ \A e \in IrqTable :
              /\ e[1] <= 60
              /\ intie[e[1]] = 0
              /\ intip[e[1]] = 0
        /\ \A s \in Known : intie[to_irq(s)] = 0 /\ intip[to_irq(s)] = 0
        /\ \A i \in SliceBytes : intie[i] = 0 /\ intip[i] = 0
        /\ mie
        /\ ~panicked

C15_Witness ==
    /\ setup.pc = "done"
    /\ setup.intie = OnesBank
    /\ setup.intip = OddBank
    /\ ~setup.mie
    /\ intie[GPIO_IRQ] = 0
    /\ intip[UART1_IRQ] = 0
    /\ mie

\* the vector base has been written by _setup_interrupts
VectorWritten == setup.pc \notin {"idle", "disabled"}

\* C16 as claimed: the value setup_interrupts() writes into mtvec has the
\* mode field (its low two bits) 0 and the trap entry address as base
\* field.
C16_MtvecModeIsZero ==
    VectorWritten =>
        /\ mtvec % 4 = 0
        /\ mtvec - (mtvec % 4) = start_trap_hal

\* C16 as amended: the value setup_interrupts() writes into mtvec is the
\* 4-byte-aligned trap entry address with 2 or-ed in: its low two bits are
\* 2, not 0, and the rest is the trap entry address.
C16_MtvecModeIsTwo ==
    VectorWritten =>
        /\ start_trap_hal % 4 = 0
        /\ mtvec % 4 = 2
        /\ mtvec - (mtvec % 4) = start_trap_hal

C16_Witness ==
    /\ setup.pc = "zero_e"
    /\ setup.k = 0
    /\ start_trap_hal = 587206748
    /\ mtvec = 587206750

\* C19: during setup_interrupts() global delivery is disabled before the
\* vector base is written and stays disabled until both banks are zeroed;
\* it is enabled again only by the last step; so no trap is taken while the
\* vector base is being written or while a byte under the slices has yet
\* to be zeroed.
C19_NoTrapDuringSetup ==
    /\ [](/\ setup.pc \notin {"idle", "done"} => ~mie
          /\ taken \subseteq {"idle", "done"}
          /\ mie =>
                \/ setup.pc = "idle"
                \/ /\ setup.pc = "done"
                   /\ \A i \in SliceBytes : intie[i] = 0 /\ intip[i] = 0)
    /\ [][/\ mtvec' # mtvec => (~mie /\ ~mie')
          /\ (intie' # intie \/ intip' # intip) => (~mie /\ ~mie')
          /\ (~mie /\ mie') =>
                /\ setup.pc = "enable"
                /\ setup'.pc = "done"
                /\ UNCHANGED <<mtvec, intie, intip>>]_vars

C19_Witness ==
    /\ setup.pc = "zero_p"
    /\ setup.k = 10
    /\ setup.mie
    /\ ~mie
    /\ taken = {"idle"}
    /\ intip[GPIO_IRQ] = 1
    /\ intie[GPIO_IRQ] = 0

\* the dispatcher as a machine of two states: a trap takes it from Idle to
\* Dispatching with nothing invoked yet; in Dispatching it invokes at most
\* one callable; it goes back to Idle only from a state in which the one
\* callable it invoked is running, by that callable's return
TwoStateDispatcher ==
    /\ [](/\ state \in {"Idle", "Dispatching"}
          /\ state = "Idle" => running = "none"
          /\ Len(calls) <= 1
          /\ running # "none" => (Len(calls) = 1 /\ calls[1].fn = running))
    /\ [][/\ (state = "Idle" /\ state' # "Idle") =>
                (state' = "Dispatching" /\ calls' = <<>> /\ running' = "none")
          /\ (state = "Dispatching" /\ state' = "Idle") =>
                /\ running # "none"
                /\ running' = "none"
                /\ Len(calls) = 1
                /\ calls' = calls]_vars

GenericCause ==
    \/ cause.is_exception
    \/ cause.code < IRQ_NUM_BASE
    \/ (cause.code % 256) \notin TableIrqs

C18_PreemptedTimecmpKeepsFirstSum ==
    (LastCall("set_timecmp") /\ timer_op.preempted /\ ~panicked) =>
        /\ timer_op.handler # None
        /\ mtimecmp = WrappingAdd(timer_op.t, timer_op.delay)
        /\ (Small(timer_op.t) /\ Small(timer_op.delay)) =>
              Value(mtimecmp, 1) = Value(timer_op.t, 1) + Value(timer_op.delay, 1)
        /\ timer_op.accessed = {CLIC_CTRL_ADDR + CLIC_MTIME,
                                CLIC_CTRL_ADDR + CLIC_MTIMECMP}

C18_Witness ==
    /\ LastCall("set_timecmp")
    /\ timer_op.preempted
    /\ ~panicked
    /\ timer_op.t = U64(10000)
    /\ timer_op.delay = U64(0)
    /\ timer_op.handler = Some([t |-> U64(10999), delay |-> U64(1000)])
    /\ mtime = U64(10999)
    /\ mtimecmp = U64(10000)
    /\ mtimecmp # WrappingAdd(timer_op.handler[1].t, timer_op.handler[1].delay)

\* the callable the low byte b of a cause code stands for
CallableOfLowByte(b) ==
    IF b \in TableIrqs
    THEN (CHOOSE e \in IrqTable : e[1] = b)[2]
    ELSE GENERIC

\* C20: for an interrupt trap with cause code of 16 or more the callable
\* invoked is determined by code mod 256 alone, so two codes with the same
\* low byte go to the same callable (316 -> Gpio, 259 -> MachineSoft); an
\* interrupt cause code below 16 goes to the generic path undecoded.
C20_OnlyLowByteDecoded ==
    (state = "Dispatching" /\ ~cause.is_exception /\ running # "none") =>
        /\ cause.code >= IRQ_NUM_BASE =>
              running = CallableOfLowByte(cause.code % 256)
        /\ cause.code < IRQ_NUM_BASE => running = GENERIC
        /\ cause.code = 316 => running = "Gpio"
        /\ cause.code = 259 => running = "MachineSoft"
        /\ calls = <<[fn |-> running, ptr |-> trap_frame, regs |-> frame.entry]>>

C20_Witness ==
    /\ state = "Dispatching"
    /\ ~cause.is_exception
    /\ cause.code = 259
    /\ running = "MachineSoft"
    /\ trap_frame = "frame"

====
